---- MODULE Spec2Model ----
(***************************************************************************)
(* Model of the tunnel cross-section point reordering tool (src/app.py).   *)
(*                                                                         *)
(* One run of the script is one action: the uploaded table is parsed, the  *)
(* polar angle of every row is computed, the rows are sorted by angle      *)
(* descending, the start row is chosen in the third quadrant, the sorted   *)
(* rows are shifted circularly, the angle column is dropped, the result is *)
(* previewed, marked and handed to the CSV/TSV export.                     *)
(*                                                                         *)
(* A table is [cols |-> sequence of column names, rows |-> sequence of     *)
(* rows], a row being a function from the column names to cells.  A cell   *)
(* is a number, a missing value (NaN), a text, or an angle.  The angle     *)
(* atan2(y, x) is kept as the pair (y, x) it was computed from and is only *)
(* ever compared (ThetaGT), exactly as the code only ever sorts by it.     *)
(***************************************************************************)
EXTENDS Integers, Sequences, FiniteSets, TLC

VARIABLES
    status,       \* "idle" (no file), "done" (lines 22-136 ran), "error" (line 138)
    df,           \* the table as parsed by pd.read_csv (line 31)
    indexer,      \* the row order chosen by sort_values (line 62), 1-based
    df_sorted,    \* line 62
    start_index,  \* lines 73 / 77, 0-based as in the code
    warning,      \* TRUE when st.warning was called (line 72)
    df_final,     \* the reordered table after line 86
    preview,      \* the table shown by st.dataframe (line 94)
    export,       \* the table handed to to_csv (lines 117, 120)
    round,        \* 0 no run yet, 1 first run, 2 run on the previous result
    prev_final    \* df_final of the previous run, when round = 2

vars == <<status, df, indexer, df_sorted, start_index, warning, df_final,
          preview, export, round, prev_final>>

----------------------------------------------------------------------------
(* Bounds of the model *)

MaxRows == 3

(* Coordinates of the numeric rows, <<x, y>>: every open quadrant, the     *)
(* negative half of both axes, the origin, third-quadrant points sharing   *)
(* an angle with different x, and third-quadrant points sharing x with     *)
(* different angles.                                                       *)
Points ==
    { <<1, 1>>, <<-1, 1>>, <<1, -1>>, <<0, 0>>, <<-1, 0>>, <<0, -1>>,
      <<-1, -1>>, <<-2, -2>>, <<-1, -2>> }

----------------------------------------------------------------------------
(* Cells *)

Num(n) == [k |-> "num", v |-> n]
NaN == [k |-> "nan"]
Text(s) == [k |-> "str", s |-> s]
Rad(y, x) == [k |-> "rad", y |-> y, x |-> x]

Range(s) == { s[i] : i \in 1..Len(s) }

EmptyTable == [cols |-> <<>>, rows |-> <<>>]

(* line 94: df_final.head(10) *)
HeadRows == 10

(* lines 42-50: the x and y columns offered by default and selected *)
x_col == "x"
y_col == "y"

----------------------------------------------------------------------------
(* The uploaded files, as parsed (line 31) *)

(* The coordinate cells of one parsed row: numbers, or a missing value     *)
(* (an empty field, read as NaN), or a text that is no number.             *)
RowKinds ==
    { <<Num(p[1]), Num(p[2])>> : p \in Points }
      \cup { <<NaN, Num(-1)>>, <<Num(-1), NaN>>, <<Num(-1), Text("abc")>> }

(* Columns node, x, y, and optionally a fourth column that is named as the *)
(* script's transient angle column.                                        *)
InputCols(hasTheta) ==
    IF hasTheta THEN <<"node", "x", "y", "_theta">> ELSE <<"node", "x", "y">>

ParsedTable(n, kinds, hasTheta) ==
    [cols |-> InputCols(hasTheta),
     rows |-> [i \in 1..n |->
                 [c \in Range(InputCols(hasTheta)) |->
                    CASE c = "node" -> Num(i)
                      [] c = "x" -> kinds[i][1]
                      [] c = "y" -> kinds[i][2]
                      [] OTHER -> Text("keep")]]]

----------------------------------------------------------------------------
(* pandas / numpy operations used by the script *)

(* df[name] = values  (a new column is appended, an existing one replaced) *)
SetColumn(t, name, values) ==
    LET cols == IF name \in Range(t.cols) THEN t.cols ELSE Append(t.cols, name)
    IN [cols |-> cols,
        rows |-> [i \in 1..Len(t.rows) |->
                    [c \in Range(cols) |->
                       IF c = name THEN values[i] ELSE t.rows[i][c]]]]

(* df.drop(columns=[name]) *)
DropColumn(t, name) ==
    LET Keep(c) == c # name
        cols == SelectSeq(t.cols, Keep)
    IN [cols |-> cols,
        rows |-> [i \in 1..Len(t.rows) |-> [c \in Range(cols) |-> t.rows[i][c]]]]

(* np.arctan2 raises TypeError on a column holding text (object dtype);    *)
(* on a table without rows there is no element to fail on.                 *)
Raises(t) ==
    \E i \in 1..Len(t.rows) :
        t.rows[i][x_col].k = "str" \/ t.rows[i][y_col].k = "str"

(* np.arctan2(y, x) of one row: NaN when a coordinate is missing *)
arctan2(y, x) ==
    IF y.k = "num" /\ x.k = "num" THEN Rad(y.v, x.v) ELSE NaN

(* The position of atan2(y, x) in (-pi, pi], by sector: 7 is pi, 3 is 0    *)
(* (the origin included: atan2(0, 0) = 0), 0 is the open third quadrant.   *)
Sector(t) ==
    CASE t.y = 0 /\ t.x < 0 -> 7
      [] t.y > 0 /\ t.x < 0 -> 6
      [] t.y > 0 /\ t.x = 0 -> 5
      [] t.y > 0 /\ t.x > 0 -> 4
      [] t.y = 0 /\ t.x >= 0 -> 3
      [] t.y < 0 /\ t.x > 0 -> 2
      [] t.y < 0 /\ t.x = 0 -> 1
      [] OTHER -> 0

(* a > b for two angles; every comparison with NaN is false.  Within a     *)
(* sector the larger angle is the one counter-clockwise of the other.      *)
ThetaGT(a, b) ==
    /\ a.k = "rad" /\ b.k = "rad"
    /\ \/ Sector(a) > Sector(b)
       \/ Sector(a) = Sector(b) /\ b.x * a.y - b.y * a.x > 0

ThetaColumn(t) ==
    [i \in 1..Len(t.rows) |-> arctan2(t.rows[i][y_col], t.rows[i][x_col])]

(* Variant of Descending: ascending=True *)
DescendingMutAscending(keys, p, m) ==
    \A i \in 1..(m - 1) : ~ThetaGT(keys[p[i]], keys[p[i + 1]])

(* ascending=False: the keys of the first m rows, those that are not NaN,  *)
(* never increase from one row to the next.                                *)
Descending(keys, p, m) ==
    \A i \in 1..(m - 1) : ~ThetaGT(keys[p[i + 1]], keys[p[i]])

(* sort_values(by=..., ascending=False) with the default kind='quicksort'  *)
(* and na_position='last': the rows whose key is not NaN come first, in    *)
(* non-increasing key order; the order among equal keys is whatever the    *)
(* unstable sort leaves; the NaN rows follow in their original order.      *)
SortOutcomes(keys) ==
    LET n == Len(keys)
        m == Cardinality({ i \in 1..n : keys[i].k # "nan" })
    IN { p \in Permutations(1..n) :
           /\ \A i \in 1..m : keys[p[i]].k # "nan"
           /\ Descending(keys, p, m)
           /\ \A i \in (m + 1)..(n - 1) : p[i] < p[i + 1] }

(* .reset_index(drop=True): the rows in the sorted order, renumbered *)
TakeRows(t, p) ==
    [cols |-> t.cols, rows |-> [i \in 1..Len(t.rows) |-> t.rows[p[i]]]]

(* (df_sorted[x_col] < 0) & (df_sorted[y_col] < 0); NaN < 0 is False *)
Lt0(c) == c.k = "num" /\ c.v < 0
q3_mask(r) == Lt0(r[x_col]) /\ Lt0(r[y_col])

q3_points(t) == { i \in 1..Len(t.rows) : q3_mask(t.rows[i]) }

(* Variant of idxmax: the last occurrence of the maximum *)
idxmaxMutLast(t, S) ==
    CHOOSE i \in S :
        \A j \in S : /\ t.rows[j][x_col].v <= t.rows[i][x_col].v
                     /\ t.rows[j][x_col].v = t.rows[i][x_col].v => j <= i

(* Series.idxmax(): the label of the first occurrence of the maximum *)
idxmax(t, S) ==
    CHOOSE i \in S :
        \A j \in S : /\ t.rows[j][x_col].v <= t.rows[i][x_col].v
                     /\ t.rows[j][x_col].v = t.rows[i][x_col].v => i <= j

(* Variant of SelectStart: the empty branch does not warn *)
SelectStartMutNoWarning(t) ==
    IF q3_points(t) = {}
    THEN [start_index |-> 0, warning |-> FALSE]
    ELSE [start_index |-> idxmax(t, q3_points(t)) - 1, warning |-> FALSE]

(* lines 66-77: the start index (0-based label) and whether it warned *)
SelectStart(t) ==
    IF q3_points(t) = {}
    THEN [start_index |-> 0, warning |-> TRUE]
    ELSE [start_index |-> idxmax(t, q3_points(t)) - 1, warning |-> FALSE]

(* Variant of Shift: the two slices concatenated in their original order *)
ShiftMutNoShift(t, start) ==
    [cols |-> t.cols,
     rows |-> SubSeq(t.rows, 1, start) \o SubSeq(t.rows, start + 1, Len(t.rows))]

(* lines 80-83: pd.concat([iloc[start:], iloc[:start]]).reset_index *)
Shift(t, start) ==
    [cols |-> t.cols,
     rows |-> SubSeq(t.rows, start + 1, Len(t.rows)) \o SubSeq(t.rows, 1, start)]

(* df.head(n) *)
head(t, n) ==
    [cols |-> t.cols,
     rows |-> SubSeq(t.rows, 1, IF Len(t.rows) < n THEN Len(t.rows) ELSE n)]

(* lines 100-101: the 'Type' column, and the start label at row label 0.   *)
(* On a table without rows .loc[0, 'Type'] = ... enlarges the table by a   *)
(* row whose other cells are missing.                                      *)
MarkStart(t) ==
    LET typed == SetColumn(t, "Type", [i \in 1..Len(t.rows) |-> Text("Other Points")])
        start == Text("Start Point (New Node 1)")
    IN IF Len(t.rows) = 0
       THEN [cols |-> typed.cols,
             rows |-> << [c \in Range(typed.cols) |->
                            IF c = "Type" THEN start ELSE NaN] >>]
       ELSE [cols |-> typed.cols,
             rows |-> [typed.rows EXCEPT ![1] = [@ EXCEPT !["Type"] = start]]]

----------------------------------------------------------------------------
(* The script *)

Init ==
    /\ status = "idle"
    /\ df = EmptyTable
    /\ indexer = <<>>
    /\ df_sorted = EmptyTable
    /\ start_index = 0
    /\ warning = FALSE
    /\ df_final = EmptyTable
    /\ preview = EmptyTable
    /\ export = EmptyTable
    /\ round = 0
    /\ prev_final = EmptyTable

(* lines 22-140 on the parsed table t *)
Process(t) ==
    /\ df' = t
    /\ IF Raises(df')
       THEN \* line 57 raises, lines 138-140 report it
            /\ status' = "error"
            /\ indexer' = <<>>
            /\ df_sorted' = EmptyTable
            /\ start_index' = 0
            /\ warning' = FALSE
            /\ df_final' = EmptyTable
            /\ preview' = EmptyTable
            /\ export' = EmptyTable
       ELSE /\ status' = "done"
            \* lines 57-62
            /\ indexer' \in SortOutcomes(ThetaColumn(df'))
            /\ df_sorted' = TakeRows(SetColumn(df', "_theta", ThetaColumn(df')), indexer')
            \* lines 66-77
            /\ start_index' = SelectStart(df_sorted').start_index
            /\ warning' = SelectStart(df_sorted').warning
            \* lines 80-86
            /\ df_final' = DropColumn(Shift(df_sorted', start_index'), "_theta")
            \* line 94
            /\ preview' = head(df_final', HeadRows)
            \* lines 100-120
            /\ export' = MarkStart(df_final')

(* A file is uploaded and the script runs on it *)
Run ==
    /\ status = "idle"
    /\ \E n \in 0..MaxRows, hasTheta \in BOOLEAN :
         \E kinds \in [1..n -> RowKinds] : Process(ParsedTable(n, kinds, hasTheta))
    /\ round' = 1
    /\ prev_final' = EmptyTable

(* The reordered table of the first run is uploaded and the script runs on *)
(* it (one such second run is modelled).                                   *)
Resubmit ==
    /\ status = "done"
    /\ round = 1
    /\ Process(df_final)
    /\ round' = 2
    /\ prev_final' = df_final

(* The file is removed: lines 142-143 *)
ClearUpload ==
    /\ status # "idle"
    /\ status' = "idle"
    /\ df' = EmptyTable
    /\ indexer' = <<>>
    /\ df_sorted' = EmptyTable
    /\ start_index' = 0
    /\ warning' = FALSE
    /\ df_final' = EmptyTable
    /\ preview' = EmptyTable
    /\ export' = EmptyTable
    /\ round' = 0
    /\ prev_final' = EmptyTable

Next == Run \/ Resubmit \/ ClearUpload

Spec == Init /\ [][Next]_vars

----------------------------------------------------------------------------
(* Vocabulary of the properties *)

NumRows == Len(df.rows)

(* x < 0 and y < 0, both numbers *)
ThirdQuadrant(r) ==
    /\ r["x"].k = "num" /\ r["x"].v < 0
    /\ r["y"].k = "num" /\ r["y"].v < 0

Q3Rows(t) == { i \in 1..Len(t.rows) : ThirdQuadrant(t.rows[i]) }

(* The third-quadrant rows of t whose x is the maximum over them *)
MaxXRows(t) ==
    { i \in Q3Rows(t) :
        \A j \in Q3Rows(t) : t.rows[j]["x"].v <= t.rows[i]["x"].v }

(* Two rows hold the same cells in the columns cols *)
RowsAgree(a, b, cols) == \A c \in cols : a[c] = b[c]

Angle(r) == arctan2(r["y"], r["x"])

SameAngle(a, b) ==
    /\ a.k = "rad" /\ b.k = "rad"
    /\ ~ThetaGT(a, b) /\ ~ThetaGT(b, a)

Count(rows, r) == Cardinality({ i \in 1..Len(rows) : rows[i] = r })

(* A selected coordinate that is missing or is no number *)
InvalidField(t) ==
    \E i \in 1..Len(t.rows) :
        t.rows[i]["x"].k # "num" \/ t.rows[i]["y"].k # "num"

HasText(t) ==
    \E i \in 1..Len(t.rows) :
        t.rows[i]["x"].k = "str" \/ t.rows[i]["y"].k = "str"

(* The positions i at which the angle rises from row i to the next row,    *)
(* the row after the last one being the first.                             *)
Ascents(rows) ==
    { i \in 1..Len(rows) :
        ThetaGT(Angle(rows[(i % Len(rows)) + 1]), Angle(rows[i])) }

----------------------------------------------------------------------------
(* C1 - Start-point property: when the input has a point with x < 0 and    *)
(* y < 0, the first row of the output is a third-quadrant point whose x is *)
(* the maximum x over all third-quadrant points of the input, and among    *)
(* the third-quadrant points with that x it is the one that comes first in *)
(* the angle-sorted sequence.                                              *)
StartPointProperty ==
    (status = "done" /\ Q3Rows(df) # {}) =>
        LET first == df_final.rows[1]
            k == CHOOSE i \in MaxXRows(df_sorted) :
                     \A j \in MaxXRows(df_sorted) : i <= j
        IN /\ ThirdQuadrant(first)
           /\ \A i \in Q3Rows(df) : df.rows[i]["x"].v <= first["x"].v
           /\ RowsAgree(first, df_sorted.rows[k], Range(df_final.cols))

(* Several third-quadrant points share the maximum x, at different angles, *)
(* and the chosen one is not the first row of the sorted sequence.         *)
StartPointWitness ==
    /\ status = "done"
    /\ start_index > 0
    /\ \E i, j \in MaxXRows(df_sorted) :
          ThetaGT(df_sorted.rows[i]["_theta"], df_sorted.rows[j]["_theta"])

(* C2 - Permutation property: the output has as many rows as the input and *)
(* the same multiset of records, every record with all its attribute       *)
(* values.                                                                 *)
PermutationProperty ==
    (status = "done" /\ NumRows > 0) =>
        /\ Len(df_final.rows) = NumRows
        /\ \A i \in 1..NumRows :
              Count(df_final.rows, df.rows[i]) = Count(df.rows, df.rows[i])

(* C3 - Idempotence: running the reorder on its own output returns that    *)
(* output unchanged.                                                       *)
IdempotentResort ==
    (status = "done" /\ round = 2 /\ NumRows > 0) => df_final = prev_final

(* C4 - No-third-quadrant property: on a non-empty numeric input without a *)
(* point with x < 0 and y < 0 the run completes, warns, reports start      *)
(* index 0, and its output is the angle-descending sort, unshifted.        *)
NoThirdQuadrantProperty ==
    (status # "idle" /\ NumRows > 0 /\ ~HasText(df) /\ Q3Rows(df) = {}) =>
        /\ status = "done"
        /\ warning
        /\ start_index = 0
        /\ Len(df_final.rows) = NumRows
        /\ \A i \in 1..NumRows :
              RowsAgree(df_final.rows[i], df_sorted.rows[i], Range(df_final.cols))
        /\ \A i, j \in 1..NumRows :
              i < j => ~ThetaGT(Angle(df_final.rows[j]), Angle(df_final.rows[i]))
        /\ Len(preview.rows) > 0
        /\ Len(export.rows) = NumRows
        /\ \A i \in 1..NumRows :
              RowsAgree(export.rows[i], df_final.rows[i], Range(df_final.cols))

(* Points on the negative axes and at distinct angles, none in the third   *)
(* quadrant: the warning is given and the sorted order differs from the    *)
(* input order.                                                            *)
NoThirdQuadrantWitness ==
    /\ status = "done"
    /\ warning
    /\ NumRows >= 2
    /\ \E i \in 1..NumRows : df.rows[i]["x"].k = "num" /\ df.rows[i]["x"].v < 0
    /\ \E i \in 1..NumRows : df.rows[i]["y"].k = "num" /\ df.rows[i]["y"].v < 0
    /\ indexer[1] # 1

(* C5 - Clockwise property: the angles of the output rows rise at most at  *)
(* one position, the step from the last row back to the first included.    *)
ClockwiseProperty ==
    (status = "done" /\ NumRows > 0) => Cardinality(Ascents(df_final.rows)) <= 1

(* A shifted output of three rows at three angles: exactly one rise, and   *)
(* it is not at the wrap from the last row to the first.                   *)
ClockwiseWitness ==
    /\ status = "done"
    /\ NumRows >= 3
    /\ start_index > 0
    /\ \A i, j \in 1..NumRows :
          i # j => ~SameAngle(Angle(df_final.rows[i]), Angle(df_final.rows[j]))
    /\ Cardinality(Ascents(df_final.rows)) = 1
    /\ NumRows \notin Ascents(df_final.rows)

(* C6 - Stable ties: two rows of the sorted sequence with the same angle   *)
(* stand in the order they had in the input.                               *)
StableTies ==
    status = "done" =>
        \A i, j \in 1..NumRows :
            (i < j /\ SameAngle(df_sorted.rows[i]["_theta"], df_sorted.rows[j]["_theta"]))
                => indexer[i] < indexer[j]

(* C7 - Output columns: the table handed to the export has exactly the     *)
(* columns of the input, in the input's order.                             *)
OutputColumns ==
    status = "done" => export.cols = df.cols

(* C8 - Invalid field is fatal: when a selected coordinate is missing or   *)
(* is no number on some record, the run fails and neither a preview nor an *)
(* export is produced.                                                     *)
InvalidFieldFatal ==
    (status # "idle" /\ InvalidField(df)) =>
        /\ status = "error"
        /\ preview = EmptyTable
        /\ export = EmptyTable

(* C9 - Empty input is fatal: on a table without rows the run fails; it    *)
(* gives no warning and hands nothing to the export.                       *)
EmptyInputFatal ==
    (status # "idle" /\ NumRows = 0) =>
        /\ status = "error"
        /\ ~warning
        /\ export = EmptyTable

====
